---- MODULE Spec2Model ----
(***************************************************************************)
(* State-machine model of the WhatsApp sender service: the session         *)
(* registry and HTTP routes of src/app.py and the WhatsAppBot session      *)
(* object of src/whatsapp_bot.py.                                          *)
(*                                                                         *)
(* A request is run by a worker thread, one step at a time.  Spec runs     *)
(* requests and direct calls of the registry functions one after another   *)
(* on a single worker; SpecConc lets two workers interleave the steps of   *)
(* their registry calls; SpecServer is the server with the routes as its   *)
(* only entry points.  Everything the browser, the page and the file       *)
(* system decide (a launch that fails, a marker that appears or not, a     *)
(* quit that raises) is a nondeterministic choice of the step.             *)
(***************************************************************************)
EXTENDS Integers, FiniteSets, Sequences, TLC

\* ------------------------------------------------------------------ bounds
MaxBots == 3         \* WhatsAppBot objects alive at one time
MaxDrivers == 2      \* browsers running at one time
MaxTicks == 2        \* minutes of wall-clock time that pass in one run

\* --------------------------------------------------------- program values
SESSION_TIMEOUT_MINUTES == 1     \* read from the environment (default 30)
SecondsPerMinute == 60
timeout_seconds == SESSION_TIMEOUT_MINUTES * SecondsPerMinute

Devices == {"d1", "d2"}          \* device ids that appear in request URLs
Threads == {1, 2}                \* worker threads of the server
None == 0                        \* Python's None for object references
BotIds == 1..MaxBots
DriverIds == 1..MaxDrivers

VARIABLES
  bot_instances,   \* app.py: device id -> bot object (None when absent)
  botDevId,        \* bot.device_id
  botDriver,       \* bot.driver (None or a driver)
  botAuth,         \* bot.is_authenticated
  botLast,         \* bot.last_activity
  drvDev,          \* per driver a bot refers to: the device id of the request
                   \* that launched it; "none" for a driver id not in use
  leaked,          \* per device id: browsers launched for it that still run
                   \* and that no bot refers to any more
  qrFiles,         \* device ids X such that qr_codes/X_qr.png exists
  qrFrom,          \* per device id X: what qr_codes/X_qr.png shows, which is
                   \* the device id of the request whose session captured
                   \* it; "none" while there is no such file
  now,             \* time.time()
  pc,              \* per thread: position in the request it is running
  loc,             \* per thread: local variables of the request
  removedBots      \* history: bots removed by delete, eviction or force_new

\* The device_id a session object can have: the one it is constructed for,
\* or the default of the parameter.
QrNames == Devices \cup {"default"}

botVars == <<botDevId, botDriver, botAuth, botLast>>
drvVars == <<drvDev, leaked, qrFiles, qrFrom>>
vars == <<bot_instances, botVars, drvVars, now, pc, loc, removedBots>>

\* ------------------------------------------------------------ local state
NoRes == [success |-> FALSE, qr_required |-> FALSE, error |-> "none"]
Ok(qr) == [success |-> TRUE, qr_required |-> qr, error |-> ""]
Fail(e) == [success |-> FALSE, qr_required |-> FALSE, error |-> e]

IdleLoc ==
  [route |-> "none", dev |-> "none", force |-> FALSE, bot |-> None,
   cont |-> "none", res |-> NoRes, items |-> {}, todo |-> {}, held |-> {}, ctime |-> 0,
   status |-> 0, success |-> FALSE, body |-> "none",
   qr_code_present |-> "unset", media |-> "none", message |-> FALSE, did |-> <<>>,
   phone_number |-> <<>>, clean_phone |-> <<>>, active_sessions |-> 0,
   end_time |-> 0]

\* Python truthiness of a dict: true unless it is empty.  Every result dict
\* of the bot has at least the key 'success'.
Truthy(d) == DOMAIN d # {}

Registered(d) == bot_instances[d] # None
RegisteredBots == {bot_instances[d] : d \in Devices} \ {None}
LiveDrivers == {k \in DriverIds : drvDev[k] # "none"}

\* The number of browsers running for device id d.
Running(d) == Cardinality({k \in DriverIds : drvDev[k] = d}) + leaked[d]

RECURSIVE Sum(_, _)
Sum(f, S) == IF S = {} THEN 0 ELSE LET x == CHOOSE y \in S : TRUE IN f[x] + Sum(f, S \ {x})

Goto(t, p) == pc' = [pc EXCEPT ![t] = p]
Set(t, l) == loc' = [loc EXCEPT ![t] = l]

\* HTTP response of thread t: the request is answered and the thread is at "done".
Respond(t, l, st, ok, body) ==
  /\ pc' = [pc EXCEPT ![t] = "done"]
  /\ loc' = [loc EXCEPT ![t] = [l EXCEPT !.status = st, !.success = ok, !.body = body]]

\* ------------------------------------------------------------------- Init
Init ==
  /\ bot_instances = [d \in Devices |-> None]
  /\ botDevId = [b \in BotIds |-> "none"]
  /\ botDriver = [b \in BotIds |-> None]
  /\ botAuth = [b \in BotIds |-> FALSE]
  /\ botLast = [b \in BotIds |-> 0]
  /\ drvDev = [k \in DriverIds |-> "none"]
  /\ leaked = [d \in Devices |-> 0]
  /\ qrFiles = {}
  /\ qrFrom = [x \in QrNames |-> "none"]
  /\ now = 0
  /\ pc = [t \in Threads |-> "idle"]
  /\ loc = [t \in Threads |-> IdleLoc]
  /\ removedBots = {}

\* Wall-clock time passes, one minute at a time.  The steps of a request
\* take seconds; a minute passes between requests or during the
\* 300-second wait for authentication.
Tick ==
  /\ now < MaxTicks * SecondsPerMinute
  /\ \A t \in Threads : pc[t] \in {"idle", "is_waitauth"}
  /\ now' = now + SecondsPerMinute
  /\ UNCHANGED <<bot_instances, botVars, drvVars, pc, loc, removedBots>>

\* ------------------------------------------------ session object (the bot)
qr_code_path(b) == botDevId[b]

\* The directory get_or_create_bot passes as profile_dir for device id d:
\* SESSIONS_DIR / device_id.
profile_dir(d) == <<"sessions", d>>

\* The directory _setup_driver hands to Chrome as --user-data-dir:
\* os.path.join(self.session_dir, "user_data"), where session_dir is
\* f"sessions/{device_id}".  self.profile_dir is not used.  A session's
\* device_id never changes, so this is also what its browser was launched
\* with.
user_data_dir(b) == <<"sessions", botDevId[b], "user_data">>

\* The session fields close() reads and writes.
SessionOf(b) ==
  [driver |-> botDriver[b], is_authenticated |-> botAuth[b],
   qr |-> qr_code_path(b) \in qrFiles]

\* WhatsAppBot.close on session fields s; q is what driver.quit() does:
\* it returns ("ok") or it raises ("raise").
close(s, q) ==
  IF s.driver # None
    THEN IF q = "ok"
           THEN [driver |-> None, is_authenticated |-> FALSE, qr |-> FALSE]
           ELSE s
    ELSE s

\* Whether close() on s calls driver.quit().
QuitCalled(s) == s.driver # None

QuitOutcomes(s) == IF QuitCalled(s) THEN {"ok", "raise"} ELSE {"ok"}

\* The driver close() has quit, if any.  A quit that raised is taken to have
\* left the browser running.
Quit(s, q) == IF QuitCalled(s) /\ q = "ok" THEN {s.driver} ELSE {}

\* close() applied to bot b of the state: the bot's fields, the artifact and
\* the browser process.
CloseBot(b, q) ==
  LET s == SessionOf(b)
      s2 == close(s, q)
  IN /\ botDriver' = [botDriver EXCEPT ![b] = s2.driver]
     /\ botAuth' = [botAuth EXCEPT ![b] = s2.is_authenticated]
     /\ qrFiles' = IF s2.qr = s.qr THEN qrFiles ELSE qrFiles \ {qr_code_path(b)}
     /\ qrFrom' = [x \in QrNames |-> IF x \in qrFiles' THEN qrFrom[x] ELSE "none"]
     /\ drvDev' = [k \in DriverIds |-> IF k \in Quit(s, q) THEN "none" ELSE drvDev[k]]
     /\ UNCHANGED leaked

\* A bot object is alive while the registry or a running request refers to it.
Referenced(b) ==
  \/ b \in RegisteredBots
  \/ \E t \in Threads : loc[t].bot = b \/ b \in loc[t].held

\* A new object is distinct from every object that is alive; the model names
\* it by the least free id (None when MaxBots objects are alive).
NewObject ==
  LET free == {b \in BotIds : ~Referenced(b)}
  IN IF free = {} THEN None ELSE CHOOSE b \in free : \A c \in free : b <= c

\* A newly launched browser, named by the least driver id not in use (None
\* when MaxDrivers browsers are running).
NewDriver ==
  LET free == {k \in DriverIds : drvDev[k] = "none"}
  IN IF Sum([d \in Devices |-> Running(d)], Devices) >= MaxDrivers THEN None
     ELSE CHOOSE k \in free : \A c \in free : k <= c

\* The drivers in K lose their last reference while their browsers run.
Leak(K) ==
  /\ leaked' = [d \in Devices |-> leaked[d] + Cardinality({k \in K : drvDev[k] = d})]

\* __del__ (the second definition, which replaces the first) calls close().
\* The interpreter runs it when the last reference to the object goes, in
\* the step that drops it; the object's memory is then gone.  The step has
\* already fixed bot_instances' and loc'; fresh is the bot the step has just
\* constructed (None if none), with its last_activity and device_id.
Collect(fresh, freshLast, freshDevId) ==
  LET dead == {b \in BotIds : Referenced(b) /\ ~Referenced(b)'}
  IN \E qs \in [dead -> {"ok", "raise"}] :
       /\ \A b \in dead : qs[b] \in QuitOutcomes(SessionOf(b))
       /\ LET quit == UNION {Quit(SessionOf(b), qs[b]) : b \in dead}
              lost == {botDriver[b] : b \in dead} \ ({None} \cup quit)
              gone == {qr_code_path(b) : b \in {x \in dead : Quit(SessionOf(x), qs[x]) # {}}}
          IN /\ botDriver' = [b \in BotIds |-> IF b \in dead THEN None ELSE botDriver[b]]
             /\ botAuth' = [b \in BotIds |-> IF b \in dead THEN FALSE ELSE botAuth[b]]
             /\ botLast' = [b \in BotIds |-> IF b \in dead THEN 0
                                             ELSE IF b = fresh THEN freshLast ELSE botLast[b]]
             /\ botDevId' = [b \in BotIds |-> IF b \in dead THEN "none"
                                              ELSE IF b = fresh THEN freshDevId ELSE botDevId[b]]
             /\ drvDev' = [k \in DriverIds |-> IF k \in quit \cup lost THEN "none" ELSE drvDev[k]]
             /\ Leak(lost)
             /\ qrFiles' = qrFiles \ gone
             /\ qrFrom' = [x \in QrNames |-> IF x \in gone THEN "none" ELSE qrFrom[x]]

\* ------------------------------------------------------- get_or_create_bot
\* The history of removals keeps only bots that are still alive.
Removed(X) == removedBots' = {b \in removedBots \cup X : Referenced(b)'}

\* A get_or_create_bot that never finds the existing session.
GocHitNever(force, d) == FALSE

\* Line 44: the existing session is returned.
GocHit(force, d) == ~force /\ Registered(d)

\* Where a route continues once get_or_create_bot has returned.
AfterGoc(route) ==
  CASE route = "initialize" -> "ri_auth"
    [] route = "qr" -> "qr_path"
    [] route \in {"send", "call"} -> "sm_driver"
    [] OTHER -> "done"

\* if not force_new and device_id in bot_instances: return bot_instances[device_id]
GocCheck(t) ==
  /\ pc[t] = "goc_check"
  /\ LET l == loc[t] IN
       IF GocHit(l.force, l.dev)
         THEN /\ Set(t, [l EXCEPT !.bot = bot_instances[l.dev]])
              /\ Goto(t, AfterGoc(l.route))
         ELSE /\ Goto(t, "goc_new")
              /\ UNCHANGED loc
  /\ UNCHANGED <<bot_instances, botVars, drvVars, now, removedBots>>

\* A miss that builds the bot and returns it without storing it.
GocNewNotStored(t) ==
  /\ pc[t] = "goc_new"
  /\ LET l == loc[t]
         b == NewObject
     IN \E built \in {TRUE, FALSE} :
          IF built
            THEN /\ b # None
                 /\ bot_instances' = bot_instances
                 /\ Set(t, [l EXCEPT !.bot = b])
                 /\ Goto(t, AfterGoc(l.route))
                 /\ Collect(b, now, "default")
                 /\ Removed({})
            ELSE /\ Goto(t, "exc")
                 /\ UNCHANGED <<bot_instances, botVars, loc, drvVars, removedBots>>
  /\ UNCHANGED now

\* bot = WhatsAppBot(headless=HEADLESS, profile_dir=profile_dir): the device
\* id is not passed, so the bot's device_id is the default, 'default'.
\* The constructor's makedirs calls may raise OSError.
\* bot_instances[device_id] = bot; return bot
GocNew(t) ==
  /\ pc[t] = "goc_new"
  /\ LET l == loc[t]
         b == NewObject
     IN \E built \in {TRUE, FALSE} :
          IF built
            THEN /\ b # None
                 /\ bot_instances' = [bot_instances EXCEPT ![l.dev] = b]
                 /\ Set(t, [l EXCEPT !.bot = b])
                 /\ Goto(t, AfterGoc(l.route))
                 /\ Collect(b, now, "default")
                 /\ Removed(IF l.force /\ Registered(l.dev)
                              THEN {bot_instances[l.dev]} ELSE {})
            ELSE /\ Goto(t, "exc")
                 /\ UNCHANGED <<bot_instances, botVars, loc, drvVars, removedBots>>
  /\ UNCHANGED now

\* A call of get_or_create_bot(device_id, force_new) from outside the routes.
StartGoc(t, d, force) ==
  /\ pc[t] = "idle"
  /\ Set(t, [IdleLoc EXCEPT !.route = "goc", !.dev = d, !.force = force])
  /\ Goto(t, "goc_check")
  /\ UNCHANGED <<bot_instances, botVars, drvVars, now, removedBots>>

\* except Exception of a route: 500, success false.  A call from outside
\* the routes has no handler: the exception reaches its caller.
Except(t) ==
  /\ pc[t] = "exc"
  /\ IF loc[t].route = "goc"
       THEN Respond(t, loc[t], 0, FALSE, "raised")
       ELSE Respond(t, loc[t], 500, FALSE, "error")
  /\ UNCHANGED <<bot_instances, botVars, drvVars, now, removedBots>>

\* The request is over: its local variables are gone.
Finish(t) ==
  /\ pc[t] = "done"
  /\ Goto(t, "idle")
  /\ Set(t, IdleLoc)
  /\ UNCHANGED <<bot_instances, now>>
  /\ Collect(None, 0, "none")
  /\ Removed({})

\* ------------------------------------------------------------ GET /qr/<id>
StartQr(t, d) ==
  /\ pc[t] = "idle"
  /\ Set(t, [IdleLoc EXCEPT !.route = "qr", !.dev = d])
  /\ Goto(t, "goc_check")
  /\ UNCHANGED <<bot_instances, botVars, drvVars, now, removedBots>>

\* WhatsAppBot.get_qr_code_path: the path if the file exists, else None.
\* The path is a str.
get_qr_code_path(b) == IF qr_code_path(b) \in qrFiles THEN qr_code_path(b) ELSE "none"

\* if qr_path and qr_path.exists(): return send_from_directory(...)
\* return 404.  A str has no attribute exists: whenever qr_path is not None
\* the test raises AttributeError, which the except clause of the route
\* turns into 500, and send_from_directory is never reached.
QrRespond(t) ==
  /\ pc[t] = "qr_path"
  /\ LET qr_path == get_qr_code_path(loc[t].bot) IN
       IF qr_path # "none"
         THEN Goto(t, "exc") /\ UNCHANGED loc
         ELSE Respond(t, loc[t], 404, FALSE, "QR code not available")
  /\ UNCHANGED <<bot_instances, botVars, drvVars, now, removedBots>>

\* ------------------------------------------------- DELETE /sessions/<id>
StartDelete(t, d) ==
  /\ pc[t] = "idle"
  /\ Set(t, [IdleLoc EXCEPT !.route = "delete", !.dev = d])
  /\ Goto(t, "del_check")
  /\ UNCHANGED <<bot_instances, botVars, drvVars, now, removedBots>>

\* if device_id in bot_instances:
DelCheck(t) ==
  /\ pc[t] = "del_check"
  /\ IF Registered(loc[t].dev)
       THEN Goto(t, "del_close") /\ UNCHANGED loc
       ELSE Respond(t, loc[t], 200, TRUE, "deleted")
  /\ UNCHANGED <<bot_instances, botVars, drvVars, now, removedBots>>

\* bot_instances[device_id].close() (KeyError if the entry is gone)
DelClose(t) ==
  /\ pc[t] = "del_close"
  /\ IF Registered(loc[t].dev)
       THEN /\ \E q \in QuitOutcomes(SessionOf(bot_instances[loc[t].dev])) :
                 CloseBot(bot_instances[loc[t].dev], q)
            /\ Goto(t, "del_del")
       ELSE /\ Goto(t, "exc")
            /\ UNCHANGED <<botDriver, botAuth, drvVars>>
  /\ UNCHANGED <<bot_instances, botDevId, botLast, now, loc, removedBots>>

\* del bot_instances[device_id] (KeyError if the entry is gone), then the answer.
DelDel(t) ==
  /\ pc[t] = "del_del"
  /\ LET l == loc[t] IN
       IF Registered(l.dev)
         THEN /\ bot_instances' = [bot_instances EXCEPT ![l.dev] = None]
              /\ Respond(t, l, 200, TRUE, "deleted")
              /\ Removed({bot_instances[l.dev]})
         ELSE /\ UNCHANGED <<bot_instances, loc>>
              /\ Goto(t, "exc")
              /\ Removed({})
  /\ Collect(None, 0, "none")
  /\ UNCHANGED now

\* ---------------------------------------------------- cleanup_old_sessions
\* The test of line 61 with >= in place of >.
TooOldAtLeast(current_time, last_activity) == current_time - last_activity >= timeout_seconds

\* Line 61: the session is too old.
TooOld(current_time, last_activity) == current_time - last_activity > timeout_seconds

\* A call of cleanup_old_sessions(); no route calls it.
\* current_time = time.time(); list(bot_instances.items()): items is the
\* list, todo the part of it the loop has not reached yet.
StartSweep(t) ==
  /\ pc[t] = "idle"
  /\ LET items == {<<d, bot_instances[d]>> : d \in {x \in Devices : Registered(x)}}
     IN Set(t, [IdleLoc EXCEPT !.route = "sweep", !.ctime = now,
                  !.items = items, !.todo = items, !.held = RegisteredBots])
  /\ Goto(t, "sw_item")
  /\ UNCHANGED <<bot_instances, botVars, drvVars, now, removedBots>>

\* for device_id, bot in ...: if current_time - bot.last_activity > timeout_seconds
SwItem(t) ==
  /\ pc[t] = "sw_item"
  /\ LET l == loc[t] IN
       IF l.todo = {}
         THEN Respond(t, [l EXCEPT !.bot = None, !.dev = "none"], 0, TRUE, "swept")
         ELSE \E it \in l.todo :
                /\ Set(t, [l EXCEPT !.todo = l.todo \ {it}, !.dev = it[1], !.bot = it[2]])
                /\ Goto(t, IF TooOld(l.ctime, botLast[it[2]]) THEN "sw_close" ELSE "sw_item")
  /\ UNCHANGED <<bot_instances, botVars, drvVars, now, removedBots>>

\* bot.close()
SwClose(t) ==
  /\ pc[t] = "sw_close"
  /\ \E q \in QuitOutcomes(SessionOf(loc[t].bot)) : CloseBot(loc[t].bot, q)
  /\ Goto(t, "sw_del")
  /\ UNCHANGED <<bot_instances, botDevId, botLast, now, loc, removedBots>>

\* del bot_instances[device_id]; a KeyError is caught and logged by the loop body.
SwDel(t) ==
  /\ pc[t] = "sw_del"
  /\ IF Registered(loc[t].dev)
       THEN /\ bot_instances' = [bot_instances EXCEPT ![loc[t].dev] = None]
            /\ removedBots' = removedBots \cup {bot_instances[loc[t].dev]}
       ELSE UNCHANGED <<bot_instances, removedBots>>
  /\ Goto(t, "sw_item")
  /\ UNCHANGED <<botVars, drvVars, now, loc>>

\* ------------------------------------------- WhatsAppBot.initialize_session
\* A call on the driver can only work while the bot has a driver whose
\* browser is running; otherwise it raises.
Usable(b) == botDriver[b] # None /\ botDriver[b] \in LiveDrivers

\* initialize_session returns res to the place it was called from.
InitReturn(t, res) ==
  /\ Set(t, [loc[t] EXCEPT !.res = res, !.cont = "none", !.qr_code_present = "unset",
                         !.end_time = 0])
  /\ Goto(t, loc[t].cont)

\* What one call of _setup_driver meets: the Chrome or the chromedriver
\* executable is not where it is looked for ("missing"), the launch raises
\* ("failed"), webdriver.Chrome() returns and is stored in self.driver but a
\* call that configures it raises ("launched_raised"), or all goes well.
SetupOutcomes == {"missing", "failed", "launched_raised", "launched"}

\* An initialize_session that goes on to load the page although
\* _setup_driver returned False.
IsSetupWithNoReturn(t, o) ==
  /\ pc[t] = "is_setup"
  /\ LET b == loc[t].bot
         k == NewDriver
     IN /\ IF o \in {"missing", "failed"}
             THEN UNCHANGED <<drvDev, leaked, botDriver>>
             ELSE /\ k # None
                  /\ drvDev' = [x \in DriverIds |-> IF x = k THEN loc[t].dev
                                                 ELSE IF x = botDriver[b] THEN "none"
                                                 ELSE drvDev[x]]
                  /\ Leak({botDriver[b]} \ {None})
                  /\ botDriver' = [botDriver EXCEPT ![b] = k]
        /\ IF o \in {"launched", "missing"}
             THEN Goto(t, "is_load") /\ UNCHANGED loc
             ELSE InitReturn(t, Fail("Failed to setup WebDriver"))
  /\ UNCHANGED <<bot_instances, botDevId, botAuth, botLast, qrFiles, qrFrom, now, removedBots>>

\* _setup_driver meeting o, and the test of its result in
\* initialize_session.  "missing" returns False before anything is
\* launched.  The driver that self.driver held before a launch is not quit:
\* its browser keeps running.
IsSetupWith(t, o) ==
  /\ pc[t] = "is_setup"
  /\ LET b == loc[t].bot
         k == NewDriver
     IN /\ IF o \in {"missing", "failed"}
             THEN UNCHANGED <<drvDev, leaked, botDriver>>
             ELSE /\ k # None
                  /\ drvDev' = [x \in DriverIds |-> IF x = k THEN loc[t].dev
                                                 ELSE IF x = botDriver[b] THEN "none"
                                                 ELSE drvDev[x]]
                  /\ Leak({botDriver[b]} \ {None})
                  /\ botDriver' = [botDriver EXCEPT ![b] = k]
        /\ IF o = "launched"
             THEN Goto(t, "is_load") /\ UNCHANGED loc
             ELSE InitReturn(t, Fail("Failed to setup WebDriver"))
  /\ UNCHANGED <<bot_instances, botDevId, botAuth, botLast, qrFiles, qrFrom, now, removedBots>>

IsSetup(t) == \E o \in SetupOutcomes : IsSetupWith(t, o)

\* self.driver.get(self.whatsapp_url)
IsLoad(t) ==
  /\ pc[t] = "is_load"
  /\ \E loaded \in {TRUE, FALSE} :
       IF loaded /\ Usable(loc[t].bot)
         THEN Goto(t, "is_check1") /\ UNCHANGED loc
         ELSE InitReturn(t, Fail("exception"))
  /\ UNCHANGED <<bot_instances, botVars, drvVars, now, removedBots>>

\* What _check_authentication can answer on bot b: a marker of the chat
\* list is seen ("yes") or not within the wait ("no"), or the driver raises.
AuthAnswers(b) == IF Usable(b) THEN {"yes", "no"} ELSE {"raise"}

\* _check_authentication sets the flag when it answers yes.
SetAuth(b, o) == botAuth' = IF o = "yes" THEN [botAuth EXCEPT ![b] = TRUE] ELSE botAuth

\* if self._check_authentication(): return success, no QR required
IsCheck1(t) ==
  /\ pc[t] = "is_check1"
  /\ LET b == loc[t].bot IN
       \E o \in AuthAnswers(b) :
         /\ SetAuth(b, o)
         /\ CASE o = "yes" -> InitReturn(t, Ok(FALSE))
              [] o = "no" -> Goto(t, "is_waitqr") /\ UNCHANGED loc
              [] OTHER -> InitReturn(t, Fail("exception"))
  /\ UNCHANGED <<bot_instances, botDevId, botDriver, botLast, drvVars, now, removedBots>>

\* qr_code_present = self._wait_for_qr_code()
IsWaitQr(t) ==
  /\ pc[t] = "is_waitqr"
  /\ \E o \in (IF Usable(loc[t].bot) THEN {"present", "absent"} ELSE {"raise"}) :
       CASE o = "present" ->
              Goto(t, "is_saveqr") /\ Set(t, [loc[t] EXCEPT !.qr_code_present = "yes"])
         [] o = "absent" ->
              Goto(t, "is_recheck") /\ Set(t, [loc[t] EXCEPT !.qr_code_present = "no"])
         [] OTHER -> InitReturn(t, Fail("exception"))
  /\ UNCHANGED <<bot_instances, botVars, drvVars, now, removedBots>>

\* self._save_qr_code(): writes the canvas to self.qr_code_path, or fails
\* (no selector matches, or an exception, which it swallows).
IsSaveQr(t) ==
  /\ pc[t] = "is_saveqr"
  /\ \E saved \in {TRUE, FALSE} :
       IF saved /\ Usable(loc[t].bot)
         THEN /\ qrFiles' = qrFiles \cup {qr_code_path(loc[t].bot)}
              /\ qrFrom' = [qrFrom EXCEPT ![qr_code_path(loc[t].bot)] = loc[t].dev]
         ELSE UNCHANGED <<qrFiles, qrFrom>>
  /\ Goto(t, "is_waitauth")
  /\ UNCHANGED <<bot_instances, botVars, drvDev, leaked, now, loc, removedBots>>

\* An initialize_session that quits its browser when the wait for the
\* authentication ends without it.
IsWaitAuthQuits(t) ==
  /\ pc[t] = "is_waitauth"
  /\ LET b == loc[t].bot IN
       \E o \in AuthAnswers(b) :
         /\ SetAuth(b, o)
         /\ IF o = "yes"
              THEN /\ InitReturn(t, Ok(TRUE))
                   /\ UNCHANGED <<botDriver, drvDev>>
              ELSE /\ InitReturn(t, Fail("Authentication timeout"))
                   /\ botDriver' = [botDriver EXCEPT ![b] = None]
                   /\ drvDev' = [x \in DriverIds |-> IF x = botDriver[b] THEN "none"
                                                    ELSE drvDev[x]]
  /\ UNCHANGED <<bot_instances, botDevId, botLast, leaked, qrFiles, qrFrom, now, removedBots>>

\* auth_success = self._wait_for_authentication(timeout=300): polls
\* _check_authentication until it answers yes or the deadline passes; an
\* exception ends the wait with False.
IsWaitAuth(t) ==
  /\ pc[t] = "is_waitauth"
  /\ LET b == loc[t].bot IN
       \E o \in AuthAnswers(b) :
         /\ SetAuth(b, o)
         /\ IF o = "yes"
              THEN InitReturn(t, Ok(TRUE))
              ELSE InitReturn(t, Fail("Authentication timeout"))
  /\ UNCHANGED <<bot_instances, botDevId, botDriver, botLast, drvVars, now, removedBots>>

\* A re-check that reports the session as authenticated through the QR code.
IsRecheckQrRequired(t) ==
  /\ pc[t] = "is_recheck"
  /\ LET b == loc[t].bot IN
       \E o \in AuthAnswers(b) :
         /\ SetAuth(b, o)
         /\ CASE o = "yes" -> InitReturn(t, Ok(TRUE))
              [] o = "no" -> InitReturn(t, Fail("Unable to load WhatsApp Web"))
              [] OTHER -> InitReturn(t, Fail("exception"))
  /\ UNCHANGED <<bot_instances, botDevId, botDriver, botLast, drvVars, now, removedBots>>

\* ---- _wait_for_authentication step by step, with the time its calls take.
\* timeout=300 of _wait_for_authentication, the 5 seconds WebDriverWait
\* waits in _check_authentication, and time.sleep(2).
AuthTimeout == 300
CheckWait == 5
PollSleep == 2

\* The latest time a run gets to: a wait that starts within the first
\* MaxTicks minutes ends before it.
Horizon == MaxTicks * SecondsPerMinute + AuthTimeout + CheckWait + PollSleep

\* end_time = time.time() + timeout
WaEnter(t) ==
  /\ pc[t] = "is_waitauth"
  /\ Set(t, [loc[t] EXCEPT !.end_time = now + AuthTimeout])
  /\ Goto(t, "wa_loop")
  /\ UNCHANGED <<bot_instances, botVars, drvVars, now, removedBots>>

\* A polling loop that never looks at the deadline.
WaLoopForever(t) ==
  /\ pc[t] = "wa_loop"
  /\ Goto(t, "wa_check") /\ UNCHANGED loc
  /\ UNCHANGED <<bot_instances, botVars, drvVars, now, removedBots>>

\* while time.time() < end_time: ... ; return False
WaLoop(t) ==
  /\ pc[t] = "wa_loop"
  /\ IF now < loc[t].end_time
       THEN Goto(t, "wa_check") /\ UNCHANGED loc
       ELSE InitReturn(t, Fail("Authentication timeout"))
  /\ UNCHANGED <<bot_instances, botVars, drvVars, now, removedBots>>

\* if self._check_authentication(): self.is_authenticated = True; return True
\* A check that answers no has waited its 5 seconds; an exception ends the
\* wait with False.
WaCheck(t) ==
  /\ pc[t] = "wa_check"
  /\ LET b == loc[t].bot IN
       \E o \in AuthAnswers(b) :
         /\ SetAuth(b, o)
         /\ CASE o = "yes" -> InitReturn(t, Ok(TRUE)) /\ UNCHANGED now
              [] o = "no" -> /\ now + CheckWait <= Horizon
                            /\ now' = now + CheckWait
                            /\ Goto(t, "wa_sleep") /\ UNCHANGED loc
              [] OTHER -> InitReturn(t, Fail("Authentication timeout")) /\ UNCHANGED now
  /\ UNCHANGED <<bot_instances, botDevId, botDriver, botLast, drvVars, removedBots>>

\* time.sleep(2)
WaSleep(t) ==
  /\ pc[t] = "wa_sleep"
  /\ now + PollSleep <= Horizon
  /\ now' = now + PollSleep
  /\ Goto(t, "wa_loop")
  /\ UNCHANGED <<bot_instances, botVars, drvVars, loc, removedBots>>

\* No QR code appeared: one more _check_authentication.
IsRecheck(t) ==
  /\ pc[t] = "is_recheck"
  /\ LET b == loc[t].bot IN
       \E o \in AuthAnswers(b) :
         /\ SetAuth(b, o)
         /\ CASE o = "yes" -> InitReturn(t, Ok(FALSE))
              [] o = "no" -> InitReturn(t, Fail("Unable to load WhatsApp Web"))
              [] OTHER -> InitReturn(t, Fail("exception"))
  /\ UNCHANGED <<bot_instances, botDevId, botDriver, botLast, drvVars, now, removedBots>>

\* initialize_session is called; it will return to cont.
CallInit(t, cont) ==
  /\ Set(t, [loc[t] EXCEPT !.cont = cont])
  /\ Goto(t, "is_setup")

\* ---------------------------------------------------- POST /initialize/<id>
StartInitialize(t, d) ==
  /\ pc[t] = "idle"
  /\ Set(t, [IdleLoc EXCEPT !.route = "initialize", !.dev = d])
  /\ Goto(t, "goc_check")
  /\ UNCHANGED <<bot_instances, botVars, drvVars, now, removedBots>>

\* if bot.is_authenticated: answer at once; else result = bot.initialize_session()
RiAuth(t) ==
  /\ pc[t] = "ri_auth"
  /\ IF botAuth[loc[t].bot]
       THEN Respond(t, loc[t], 200, TRUE, "Session already authenticated")
       ELSE CallInit(t, "ri_ret")
  /\ UNCHANGED <<bot_instances, botVars, drvVars, now, removedBots>>

\* if result.get('success'): 200 else 500
RiRet(t) ==
  /\ pc[t] = "ri_ret"
  /\ IF loc[t].res.success
       THEN Respond(t, loc[t], 200, TRUE, "Session initialized successfully")
       ELSE Respond(t, loc[t], 500, FALSE, loc[t].res.error)
  /\ UNCHANGED <<bot_instances, botVars, drvVars, now, removedBots>>

\* ------------------------------------------------ WhatsAppBot.send_message
\* send_message(phone_number, message, media_path).  loc[t].message tells
\* whether the message is a non-empty text; loc[t].media tells whether
\* media_path is None ("none"), names no existing file ("absent") or names
\* an existing file ("present"); loc[t].did lists the calls send_message
\* has made on the chat and how each ended.
MediaPaths == {"none", "absent", "present"}

\* send_message returns res to its caller.
SendReturn(t, res) ==
  /\ Set(t, [loc[t] EXCEPT !.res = res])
  /\ Goto(t, "send_ret")

\* The call that ended as e is made; send_message goes on at place p.
Did(t, e, p) ==
  /\ Set(t, [loc[t] EXCEPT !.did = Append(@, e)])
  /\ Goto(t, p)

\* The call that ended as e is made and send_message returns res.
DidReturn(t, e, res) ==
  /\ Set(t, [loc[t] EXCEPT !.did = Append(@, e), !.res = res])
  /\ Goto(t, "send_ret")

\* if not self.driver: init_result = self.initialize_session()
SmDriver(t) ==
  /\ pc[t] = "sm_driver"
  /\ IF botDriver[loc[t].bot] = None
       THEN CallInit(t, "sm_init1")
       ELSE Goto(t, "sm_auth") /\ UNCHANGED loc
  /\ UNCHANGED <<bot_instances, botVars, drvVars, now, removedBots>>

\* A send_message that goes on after a failed initialize_session.
SmInit1GoesOn(t) ==
  /\ pc[t] = "sm_init1"
  /\ Goto(t, "sm_auth")
  /\ UNCHANGED <<bot_instances, botVars, drvVars, now, loc, removedBots>>

\* if not init_result['success']: return init_result
SmInit1(t) ==
  /\ pc[t] = "sm_init1"
  /\ IF ~loc[t].res.success
       THEN Goto(t, "send_ret")
       ELSE Goto(t, "sm_auth")
  /\ UNCHANGED <<bot_instances, botVars, drvVars, now, loc, removedBots>>

\* if not self.is_authenticated and not self._check_authentication():
\*     init_result = self.initialize_session()
SmAuth(t) ==
  /\ pc[t] = "sm_auth"
  /\ LET b == loc[t].bot IN
       IF botAuth[b]
         THEN Goto(t, "sm_nav") /\ UNCHANGED <<loc, botAuth>>
         ELSE \E o \in AuthAnswers(b) :
                /\ SetAuth(b, o)
                /\ CASE o = "yes" -> Goto(t, "sm_nav") /\ UNCHANGED loc
                     [] o = "no" -> CallInit(t, "sm_init2")
                     [] OTHER -> SendReturn(t, Fail("exception"))
  /\ UNCHANGED <<bot_instances, botDevId, botDriver, botLast, drvVars, now, removedBots>>

\* if not init_result['success']: return init_result
SmInit2(t) ==
  /\ pc[t] = "sm_init2"
  /\ IF ~loc[t].res.success
       THEN Goto(t, "send_ret")
       ELSE Goto(t, "sm_nav")
  /\ UNCHANGED <<bot_instances, botVars, drvVars, now, loc, removedBots>>

\* str.isdigit on a character of a phone number.
isdigit(c) == c \in {"0", "1", "2", "3", "4", "5", "6", "7", "8", "9"}

\* str.startswith
startswith(s, prefix) ==
  Len(s) >= Len(prefix) /\ SubSeq(s, 1, Len(prefix)) = prefix

\* A normalization that prepends 91 to every number of 10 digits.
clean_phone_any_ten(phone_number) ==
  LET digits == SelectSeq(phone_number, isdigit)
  IN IF Len(digits) = 10 THEN <<"9", "1">> \o digits ELSE digits

\* clean_phone = ''.join(filter(str.isdigit, phone_number))
\* if not clean_phone.startswith('91') and len(clean_phone) == 10:
\*     clean_phone = '91' + clean_phone
clean_phone(phone_number) ==
  LET digits == SelectSeq(phone_number, isdigit)
  IN IF ~startswith(digits, <<"9", "1">>) /\ Len(digits) = 10
       THEN <<"9", "1">> \o digits
       ELSE digits

\* The normalization alone, on the phone number send_message was given.
SmPhone(t) ==
  /\ pc[t] = "sm_phone"
  /\ Set(t, [loc[t] EXCEPT !.clean_phone = clean_phone(loc[t].phone_number)])
  /\ Goto(t, "done")
  /\ UNCHANGED <<bot_instances, botVars, drvVars, now, removedBots>>

\* clean_phone is computed and self.driver.get(chat_url) is called.  The
\* routes' phone number is left open: it is the empty string here.
SmNav(t) ==
  /\ pc[t] = "sm_nav"
  /\ \E loaded \in {TRUE, FALSE} :
       /\ Set(t, [loc[t] EXCEPT
                   !.clean_phone = clean_phone(loc[t].phone_number),
                   !.did = Append(@, IF loaded /\ Usable(loc[t].bot)
                                       THEN "nav" ELSE "nav_raised"),
                   !.res = IF loaded /\ Usable(loc[t].bot) THEN @ ELSE Fail("exception")])
       /\ Goto(t, IF loaded /\ Usable(loc[t].bot) THEN "sm_chat" ELSE "send_ret")
  /\ UNCHANGED <<bot_instances, botVars, drvVars, now, removedBots>>

\* if not self._wait_for_chat_to_load(): return failure
SmChat(t) ==
  /\ pc[t] = "sm_chat"
  /\ \E o \in (IF Usable(loc[t].bot) THEN {"ready", "timeout"} ELSE {"raise"}) :
       CASE o = "ready" -> Did(t, "chat_ready", "sm_media")
         [] o = "timeout" -> DidReturn(t, "chat_timeout", Fail("Failed to load chat interface"))
         [] OTHER -> DidReturn(t, "chat_raised", Fail("exception"))
  /\ UNCHANGED <<bot_instances, botVars, drvVars, now, removedBots>>

\* A send_message that gives up when the media could not be sent.
SmMediaGivesUp(t) ==
  /\ pc[t] = "sm_media"
  /\ IF loc[t].media = "present"
       THEN \E sent \in {TRUE, FALSE} :
              IF sent /\ Usable(loc[t].bot)
                THEN Did(t, "media_sent", "sm_text")
                ELSE DidReturn(t, "media_failed", Fail("Failed to send media"))
       ELSE Goto(t, "sm_text") /\ UNCHANGED loc
  /\ UNCHANGED <<bot_instances, botVars, drvVars, now, removedBots>>

\* if media_path and os.path.exists(media_path):
\*     if not self._send_media(media_path): logger.warning(...)
\* _send_media returns False on every failure; it raises nothing.
SmMedia(t) ==
  /\ pc[t] = "sm_media"
  /\ IF loc[t].media = "present"
       THEN \E sent \in {TRUE, FALSE} :
              Did(t, IF sent /\ Usable(loc[t].bot) THEN "media_sent" ELSE "media_failed",
                  "sm_text")
       ELSE Goto(t, "sm_text") /\ UNCHANGED loc
  /\ UNCHANGED <<bot_instances, botVars, drvVars, now, removedBots>>

\* A send_message whose failed text send marks the session unauthenticated.
SmTextClearsAuth(t) ==
  /\ pc[t] = "sm_text"
  /\ IF loc[t].message
       THEN \E sent \in {TRUE, FALSE} :
              IF sent /\ Usable(loc[t].bot)
                THEN DidReturn(t, "text_sent", Ok(FALSE)) /\ UNCHANGED botAuth
                ELSE /\ DidReturn(t, "text_failed", Fail("Failed to send text message"))
                     /\ botAuth' = [botAuth EXCEPT ![loc[t].bot] = FALSE]
       ELSE SendReturn(t, Ok(FALSE)) /\ UNCHANGED botAuth
  /\ UNCHANGED <<bot_instances, botDevId, botDriver, botLast, drvVars, now, removedBots>>

\* if message: if not self._send_text_message(message): return failure
\* return {'success': True}
\* _send_text_message returns False on every failure; it raises nothing.
SmText(t) ==
  /\ pc[t] = "sm_text"
  /\ IF loc[t].message
       THEN \E sent \in {TRUE, FALSE} :
              IF sent /\ Usable(loc[t].bot)
                THEN DidReturn(t, "text_sent", Ok(FALSE))
                ELSE DidReturn(t, "text_failed", Fail("Failed to send text message"))
       ELSE SendReturn(t, Ok(FALSE))
  /\ UNCHANGED <<bot_instances, botVars, drvVars, now, removedBots>>

\* A caller other than the route: get_or_create_bot(d) and then
\* send_message with or without a text and a media path.
StartSendMessage(t, d, media, message) ==
  /\ pc[t] = "idle"
  /\ Set(t, [IdleLoc EXCEPT !.route = "call", !.dev = d, !.media = media,
                            !.message = message])
  /\ Goto(t, "goc_check")
  /\ UNCHANGED <<bot_instances, botVars, drvVars, now, removedBots>>

\* send_message has returned to that caller.
CallReturn(t) ==
  /\ pc[t] = "send_ret"
  /\ loc[t].route = "call"
  /\ Respond(t, loc[t], 0, loc[t].res.success, "returned")
  /\ UNCHANGED <<bot_instances, botVars, drvVars, now, removedBots>>

\* -------------------------------------------------------- POST /send/<id>
\* A route that does not test its body before it gets the session.
StartSendUnchecked(t, d, valid) ==
  /\ pc[t] = "idle"
  /\ Set(t, [IdleLoc EXCEPT !.route = "send", !.dev = d, !.message = valid])
  /\ Goto(t, "goc_check")
  /\ UNCHANGED <<bot_instances, botVars, drvVars, now, removedBots>>

\* if not phone or not message: 400.  The route passes the message and no
\* media_path.
StartSend(t, d, valid) ==
  /\ pc[t] = "idle"
  /\ IF valid
       THEN /\ Set(t, [IdleLoc EXCEPT !.route = "send", !.dev = d, !.message = TRUE])
            /\ Goto(t, "goc_check")
       ELSE Respond(t, [IdleLoc EXCEPT !.route = "send", !.dev = d], 400, FALSE,
                    "'phone' and 'message' fields are required")
  /\ UNCHANGED <<bot_instances, botVars, drvVars, now, removedBots>>

\* success = bot.send_message(phone, message); if success: 200, else 500.
\* success is the dict send_message returned.
SendRespond(t) ==
  /\ pc[t] = "send_ret"
  /\ loc[t].route = "send"
  /\ IF Truthy(loc[t].res)
       THEN Respond(t, loc[t], 200, TRUE, "sent")
       ELSE Respond(t, loc[t], 500, FALSE, "Failed to send message")
  /\ UNCHANGED <<bot_instances, botVars, drvVars, now, removedBots>>

\* ------------------------------------------------------- require_api_key
\* API_KEY = os.getenv("API_KEY"): here a key is configured.
API_KEY == "secret"

\* What request.headers.get("X-API-KEY") can give: None when the request
\* has no such header ("<absent>"), or the header's value.
ProvidedKeys == {"<absent>", "", "wrong", API_KEY}

\* Python truthiness of what headers.get returned.
KeyGiven(provided_key) == provided_key \notin {"<absent>", ""}

\* The routes that carry the decorator.
KeyedRoutes == {"initialize", "qr", "send", "delete"}

\* A decorator that lets a request without the header through.
require_api_key_if_given(t, r, d, provided_key, f) ==
  IF API_KEY # "" /\ KeyGiven(provided_key) /\ provided_key # API_KEY
    THEN /\ pc[t] = "idle"
         /\ Respond(t, [IdleLoc EXCEPT !.route = r, !.dev = d], 401, FALSE,
                    "Invalid or missing API key")
         /\ UNCHANGED <<bot_instances, botVars, drvVars, now, removedBots>>
    ELSE f

\* wrapper: if API_KEY: if not provided_key or provided_key != API_KEY: 401
\* return f(*args, **kwargs)
require_api_key(t, r, d, provided_key, f) ==
  IF API_KEY # "" /\ (~KeyGiven(provided_key) \/ provided_key # API_KEY)
    THEN /\ pc[t] = "idle"
         /\ Respond(t, [IdleLoc EXCEPT !.route = r, !.dev = d], 401, FALSE,
                    "Invalid or missing API key")
         /\ UNCHANGED <<bot_instances, botVars, drvVars, now, removedBots>>
    ELSE f

\* A request to the decorated route r for device id d arrives with the
\* X-API-KEY header provided_key; valid tells whether a POST /send has its
\* fields.
Request(t, r, d, valid, provided_key) ==
  require_api_key(t, r, d, provided_key,
    \/ r = "initialize" /\ StartInitialize(t, d)
    \/ r = "qr" /\ StartQr(t, d)
    \/ r = "send" /\ StartSend(t, d, valid)
    \/ r = "delete" /\ StartDelete(t, d))

\* GET /healthz: no decorator; status ok and len(bot_instances).
health_check(t, provided_key) ==
  /\ pc[t] = "idle"
  /\ Respond(t, [IdleLoc EXCEPT !.route = "healthz",
                 !.active_sessions = Cardinality({d \in Devices : Registered(d)})],
             200, TRUE, "ok")
  /\ UNCHANGED <<bot_instances, botVars, drvVars, now, removedBots>>

\* ------------------------------------------------------------ the system
\* The steps of get_or_create_bot, delete_session and cleanup_old_sessions
\* run by worker t, the calls being for device ids of D with force_new in F.
Registry(t, D, F) ==
  \/ \E d \in D, force \in F : StartGoc(t, d, force)
  \/ \E d \in D : StartDelete(t, d)
  \/ StartSweep(t)
  \/ GocCheck(t) \/ GocNew(t)
  \/ DelCheck(t) \/ DelClose(t) \/ DelDel(t)
  \/ SwItem(t) \/ SwClose(t) \/ SwDel(t)
  \/ Except(t) \/ Finish(t)

\* The steps of the initialize, qr and send routes run by worker t.
Session(t) ==
  \/ \E d \in Devices : StartInitialize(t, d)
  \/ \E d \in Devices : StartQr(t, d)
  \/ \E d \in Devices, valid \in {TRUE, FALSE} : StartSend(t, d, valid)
  \/ RiAuth(t) \/ RiRet(t)
  \/ IsSetup(t) \/ IsLoad(t) \/ IsCheck1(t) \/ IsWaitQr(t) \/ IsSaveQr(t)
  \/ IsWaitAuth(t) \/ IsRecheck(t)
  \/ QrRespond(t)
  \/ SmDriver(t) \/ SmInit1(t) \/ SmAuth(t) \/ SmInit2(t) \/ SmNav(t) \/ SmChat(t)
  \/ SmMedia(t) \/ SmText(t) \/ SendRespond(t)

\* No caller in the program passes force_new.
Worker(t) == Registry(t, Devices, {FALSE}) \/ Session(t)

\* One worker: requests are served one after another.
Next == Tick \/ Worker(1)

Spec == Init /\ [][Next]_vars

\* Two workers: the steps of their calls on the registry, all for the same
\* device id, interleave; nothing in app.py locks the registry.
NextConc == Tick \/ \E t \in Threads : Registry(t, {"d1"}, {TRUE, FALSE})

SpecConc == Init /\ [][NextConc]_vars

\* The server as app.py runs it: the routes are its only entry points, and
\* none of them calls cleanup_old_sessions or passes force_new.
Server(t) ==
  \/ Session(t)
  \/ \E d \in Devices : StartDelete(t, d)
  \/ GocCheck(t) \/ GocNew(t)
  \/ DelCheck(t) \/ DelClose(t) \/ DelDel(t)
  \/ Except(t) \/ Finish(t)

NextServer == Tick \/ Server(1)

\* Time passes, and a request that has started runs on to its answer.
\* Nothing obliges a client to send a request.
SpecServer ==
  /\ Init
  /\ [][NextServer]_vars
  /\ WF_vars(Tick)
  /\ WF_vars(pc[1] # "idle" /\ Server(1))

\* WhatsAppBot.send_message called with every kind of argument, on the
\* session of one device id.
SendCalls(t) ==
  \/ \E media \in MediaPaths, message \in {TRUE, FALSE} :
       StartSendMessage(t, "d1", media, message)
  \/ GocCheck(t) \/ GocNew(t)
  \/ IsSetup(t) \/ IsLoad(t) \/ IsCheck1(t) \/ IsWaitQr(t) \/ IsSaveQr(t)
  \/ IsWaitAuth(t) \/ IsRecheck(t)
  \/ SmDriver(t) \/ SmInit1(t) \/ SmAuth(t) \/ SmInit2(t) \/ SmNav(t) \/ SmChat(t)
  \/ SmMedia(t) \/ SmText(t) \/ CallReturn(t)
  \/ Except(t) \/ Finish(t)

NextSend == SendCalls(1)

SpecSend == Init /\ [][NextSend]_vars

\* The phone numbers the normalization is tried on: some digits of a
\* number, after nothing, 91, 19, 9 or 0, with or without other characters
\* before, between and after them; and two sample numbers, one bare and
\* one written with +91 and spaces.
MaxDigits == 12

Plain == <<"9", "8", "7", "6", "5", "4", "3", "2", "1", "0", "5", "5", "5", "5">>

Example1 == <<"9", "8", "7", "6", "5", "4", "3", "2", "1", "0">>

Example2 ==
  <<"+", "9", "1", " ", "9", "8", "7", "6", "5", " ", "4", "3", "2", "1", "0">>

PhoneNumbers ==
  {Example1, Example2} \cup
  {j1 \o h \o j2 \o SubSeq(Plain, 1, n) \o j3 :
     j1 \in {<<>>, <<"+">>},
     h \in {<<>>, <<"9", "1">>, <<"1", "9">>, <<"9">>, <<"0">>},
     j2 \in {<<>>, <<" ">>, <<"-", "(">>},
     n \in 0..MaxDigits,
     j3 \in {<<>>, <<")">>}}

\* send_message has been called with a phone number and is at line 288.
InitPhone ==
  /\ bot_instances = [d \in Devices |-> None]
  /\ botDevId = [b \in BotIds |-> "none"]
  /\ botDriver = [b \in BotIds |-> None]
  /\ botAuth = [b \in BotIds |-> FALSE]
  /\ botLast = [b \in BotIds |-> 0]
  /\ drvDev = [k \in DriverIds |-> "none"]
  /\ leaked = [d \in Devices |-> 0]
  /\ qrFiles = {}
  /\ qrFrom = [x \in QrNames |-> "none"]
  /\ now = 0
  /\ pc = [t \in Threads |-> IF t = 1 THEN "sm_phone" ELSE "idle"]
  /\ \E p \in PhoneNumbers :
       loc = [t \in Threads |-> IF t = 1 THEN [IdleLoc EXCEPT !.route = "call",
                                                               !.phone_number = p]
                                ELSE IdleLoc]
  /\ removedBots = {}

NextPhone == SmPhone(1)

SpecPhone == InitPhone /\ [][NextPhone]_vars

\* The server with an API key configured: every request arrives with some
\* X-API-KEY header or none.  Time is left out.
Keyed(t) ==
  \/ \E r \in KeyedRoutes, d \in Devices, valid \in {TRUE, FALSE},
        provided_key \in ProvidedKeys : Request(t, r, d, valid, provided_key)
  \/ \E provided_key \in ProvidedKeys : health_check(t, provided_key)
  \/ RiAuth(t) \/ RiRet(t)
  \/ IsSetup(t) \/ IsLoad(t) \/ IsCheck1(t) \/ IsWaitQr(t) \/ IsSaveQr(t)
  \/ IsWaitAuth(t) \/ IsRecheck(t)
  \/ QrRespond(t)
  \/ SmDriver(t) \/ SmInit1(t) \/ SmAuth(t) \/ SmInit2(t) \/ SmNav(t) \/ SmChat(t)
  \/ SmMedia(t) \/ SmText(t) \/ SendRespond(t)
  \/ GocCheck(t) \/ GocNew(t)
  \/ DelCheck(t) \/ DelClose(t) \/ DelDel(t)
  \/ Except(t) \/ Finish(t)

NextKeyed == Keyed(1)

SpecKeyed == Init /\ [][NextKeyed]_vars

\* POST /initialize for one device id, with _wait_for_authentication taken
\* step by step.  Requests arrive during the first MaxTicks minutes.
Waiting(t) ==
  \/ now < MaxTicks * SecondsPerMinute /\ StartInitialize(t, "d1")
  \/ GocCheck(t) \/ GocNew(t)
  \/ RiAuth(t) \/ RiRet(t)
  \/ IsSetup(t) \/ IsLoad(t) \/ IsCheck1(t) \/ IsWaitQr(t) \/ IsSaveQr(t)
  \/ IsRecheck(t)
  \/ WaEnter(t) \/ WaLoop(t) \/ WaCheck(t) \/ WaSleep(t)
  \/ Except(t) \/ Finish(t)

NextWait == Waiting(1)

\* The thread that serves a request keeps running.
SpecWait == Init /\ [][NextWait]_vars /\ WF_vars(pc[1] # "idle" /\ Waiting(1))

\* ================================================================== claims
\* ---------------------------------------------------------------------- C1
\* C1: after any sequence of initialize, send, delete and evict operations
\* on one device id, at most one browser launched for that device id is
\* running (launched and not yet quit).
C1_AtMostOneLiveDriver == \A d \in Devices : Running(d) <= 1

\* ---------------------------------------------------------------------- C2
\* Worker t's call of get_or_create_bot has returned a session that no
\* delete, eviction or force_new has removed since.
Obtained(t) ==
  /\ loc[t].route = "goc" /\ pc[t] = "done"
  /\ loc[t].bot # None
  /\ loc[t].bot \notin removedBots

\* C2: concurrent registry operations on a device id take effect as if
\* serialized: the get-or-create callers of the device id obtain the same
\* session object, and it is the one session the registry holds for it.
C2_AsIfSerialized ==
  \A t \in Threads :
    Obtained(t) =>
      /\ bot_instances[loc[t].dev] = loc[t].bot
      /\ \A u \in Threads :
           (Obtained(u) /\ loc[u].dev = loc[t].dev) => loc[u].bot = loc[t].bot

\* ---------------------------------------------------------------------- C3
\* The step in which worker t's call of get_or_create_bot returns a session.
GocReturns(t) ==
  /\ pc[t] \in {"goc_check", "goc_new"}
  /\ pc'[t] \notin {"goc_check", "goc_new", "exc"}

\* C3: a get-or-create call returns the session the registry holds for the
\* device id; the registry entry of a device id changes only in a delete, an
\* eviction or a construction for that device id; and a call with
\* force_new = false on a registered device id returns the registered session
\* and leaves the registry as it is.  So a second call, with no delete or
\* eviction since the first, returns the same session object, and it is the
\* device id's one registry entry.
C3_SecondCallSameSession ==
  [][/\ \A t \in Threads :
          GocReturns(t) =>
            /\ loc'[t].bot # None
            /\ loc'[t].bot = bot_instances'[loc[t].dev]
            /\ (~loc[t].force /\ Registered(loc[t].dev)) =>
                 /\ loc'[t].bot = bot_instances[loc[t].dev]
                 /\ bot_instances' = bot_instances
     /\ \A d \in Devices :
          bot_instances'[d] # bot_instances[d] =>
            \E t \in Threads : /\ loc[t].dev = d
                               /\ pc[t] \in {"del_del", "sw_del", "goc_new"}]_vars

\* A second call, a minute after the session was constructed, has returned it.
C3_Witness ==
  /\ pc[1] = "done" /\ loc[1].route = "goc" /\ ~loc[1].force
  /\ loc[1].bot # None
  /\ loc[1].bot = bot_instances[loc[1].dev]
  /\ botLast[loc[1].bot] < now

\* ---------------------------------------------------------------------- C4
\* C4: when delete answers, the device id is absent from the registry and
\* the session it held has been closed: the session is gone and has left no
\* browser running.  The next get-or-create for the device id, finding no
\* entry, constructs a session object that is none of the objects alive,
\* with no driver handle and is_authenticated false.
C4_DeleteThenNew ==
  [][\A t \in Threads :
       /\ (pc[t] = "del_del" /\ pc'[t] = "done") =>
            /\ bot_instances'[loc[t].dev] = None
            /\ \A b \in BotIds : b = bot_instances[loc[t].dev] => ~Referenced(b)'
            /\ leaked' = leaked
       /\ (pc[t] = "goc_check" /\ ~Registered(loc[t].dev)) => pc'[t] = "goc_new"
       /\ (pc[t] = "goc_new" /\ GocReturns(t)) =>
            /\ ~Referenced(loc'[t].bot)
            /\ botDriver'[loc'[t].bot] = None
            /\ ~botAuth'[loc'[t].bot]]_vars

\* ---------------------------------------------------------------------- C5
\* Idle time of session b as the sweep of worker t sees it.
IdleFor(t, b) == loc[t].ctime - botLast[b]

\* Worker t is inside a sweep.
InSweep(t) == loc[t].route = "sweep" /\ pc[t] \in {"sw_item", "sw_close", "sw_del"}

\* The sweep of worker t has returned to its caller.
SweepDone(t) == loc[t].route = "sweep" /\ pc[t] = "done"

\* C5 as stated: a sweep removes exactly the sessions idle for T or longer,
\* a session idle for exactly T included, and leaves the others registered.
C5_RemovesIdleAtLeastT ==
  \A t \in Threads :
    SweepDone(t) =>
      \A it \in loc[t].items :
        IF IdleFor(t, it[2]) >= timeout_seconds
          THEN ~Registered(it[1])
          ELSE bot_instances[it[1]] = it[2]

\* C5 as amended: a sweep removes exactly the sessions idle for longer than
\* T; a session idle for exactly T stays.  Every other session stays
\* registered, its driver handle, is_authenticated and last_activity as they
\* were.  An error while evicting one session does not reach the caller of
\* the sweep, which returns only when it has examined every session.
C5_RemovesIdleLongerThanT ==
  /\ [](\A t \in Threads :
          /\ SweepDone(t) =>
               /\ loc[t].body = "swept"
               /\ loc[t].todo = {}
               /\ \A it \in loc[t].items :
                    IF IdleFor(t, it[2]) > timeout_seconds
                      THEN ~Registered(it[1])
                      ELSE bot_instances[it[1]] = it[2]
          /\ loc[t].route = "sweep" => pc[t] # "exc")
  /\ [][\A t \in Threads :
          InSweep(t) =>
            \A it \in loc[t].items :
              IdleFor(t, it[2]) <= timeout_seconds =>
                /\ bot_instances'[it[1]] = bot_instances[it[1]]
                /\ botDriver'[it[2]] = botDriver[it[2]]
                /\ botAuth'[it[2]] = botAuth[it[2]]
                /\ botLast'[it[2]] = botLast[it[2]]]_vars

\* A sweep has returned: it evicted a session idle for longer than T whose
\* driver.quit() raised, and kept a session idle for exactly T.
C5_Witness ==
  /\ SweepDone(1)
  /\ \E it \in loc[1].items, kept \in loc[1].items :
       /\ IdleFor(1, it[2]) > timeout_seconds
       /\ ~Registered(it[1])
       /\ botDriver[it[2]] # None
       /\ IdleFor(1, kept[2]) = timeout_seconds
       /\ bot_instances[kept[1]] = kept[2]

\* ---------------------------------------------------------------------- C6
\* C6: a session that has been in the registry for longer than the idle
\* timeout since its last_activity is eventually evicted: its registry
\* entry is removed and its browser quit.
C6_IdleSessionEvicted ==
  \A d \in Devices :
    (/\ Registered(d)
     /\ \A b \in BotIds : b = bot_instances[d] => now - botLast[b] > timeout_seconds)
      ~> (~Registered(d) /\ Running(d) = 0)

\* ---------------------------------------------------------------------- C7
\* C7: a send that returns success sets the session's last_activity to the
\* time of the send.
C7_SendSetsLastActivity ==
  [][\A t \in Threads :
       (pc[t] = "sm_text" /\ pc'[t] = "send_ret" /\ loc'[t].res.success) =>
         botLast'[loc[t].bot] = now]_vars

\* ---------------------------------------------------------------------- C8
\* C8: POST /send with phone and message answers success only when
\* send_message succeeded; when send_message reports failure the answer is
\* HTTP 500 with success false.
C8_SendAnswer ==
  \A t \in Threads :
    (pc[t] = "done" /\ loc[t].route = "send" /\ loc[t].status # 400) =>
      /\ loc[t].success => loc[t].res.success
      /\ ~loc[t].res.success => (loc[t].status = 500 /\ ~loc[t].success)

\* ---------------------------------------------------------------------- C9
\* The step in which the close() worker t has called on session b returns.
CloseReturns(t, b) ==
  \/ pc[t] = "del_close" /\ pc'[t] = "del_del" /\ b = bot_instances[loc[t].dev]
  \/ pc[t] = "sw_close" /\ pc'[t] = "sw_del" /\ b = loc[t].bot

\* C9: when close() returns, also when driver.quit() raised and when the
\* session had no driver, the session has no driver handle, is_authenticated
\* is false and its captured QR image no longer exists.
C9_CloseReleases ==
  [][\A t \in Threads, b \in BotIds :
       CloseReturns(t, b) =>
         SessionOf(b)' = [driver |-> None, is_authenticated |-> FALSE, qr |-> FALSE]]_vars

\* --------------------------------------------------------------------- C10
\* C10: for every session of a reachable state and whatever driver.quit()
\* does, a second close() leaves the session as the first left it, and the
\* second call does not call driver.quit() (so it quits no driver and no
\* error is raised in it).
C10_CloseIdempotent ==
  \A b \in BotIds :
    Referenced(b) =>
      \A q1 \in QuitOutcomes(SessionOf(b)) :
        LET once == close(SessionOf(b), q1)
        IN /\ ~QuitCalled(once)
           /\ \A q2 \in QuitOutcomes(once) : close(once, q2) = once

\* --------------------------------------------------------------------- C11
\* C11: a session object whose is_authenticated is true keeps it true in every
\* step of initialize, of an authentication check and of send; the flag of a
\* session that stays alive goes back to false only in the step in which a
\* close() called on that session returns.
C11_AuthClearedOnlyByClose ==
  [][\A b \in BotIds :
       (Referenced(b) /\ botAuth[b] /\ Referenced(b)' /\ ~botAuth'[b])
         => \E t \in Threads : CloseReturns(t, b)]_vars

\* An authenticated session on which a later send has failed, still
\* authenticated.
C11_Witness ==
  \E t \in Threads :
    /\ pc[t] = "send_ret"
    /\ loc[t].res = Fail("Failed to send text message")
    /\ botAuth[loc[t].bot]
    /\ botLast[loc[t].bot] < now

\* --------------------------------------------------------------------- C12
\* The places of initialize_session, and the moves between them that follow
\* the order launch, load, check, wait for the QR code, capture, wait for
\* the authentication (or, with no QR code, the one re-check).
InitPcs ==
  {"is_setup", "is_load", "is_check1", "is_waitqr", "is_saveqr", "is_waitauth",
   "is_recheck"}
InitOrder ==
  {<<"is_setup", "is_load">>, <<"is_load", "is_check1">>, <<"is_check1", "is_waitqr">>,
   <<"is_waitqr", "is_saveqr">>, <<"is_saveqr", "is_waitauth">>,
   <<"is_waitqr", "is_recheck">>}

\* The step in which worker t's call of initialize_session returns.
InitReturns(t) == pc[t] \in InitPcs /\ pc'[t] \notin InitPcs

\* C12: initialize_session moves only along the order launch, load, check,
\* wait for the QR code, capture, wait for the authentication.  It returns
\* success without qr_required only from the first check or from the re-check
\* after no QR code appeared; success with qr_required only when the QR code
\* was detected and the wait saw the authentication; 'Authentication
\* timeout' exactly when a QR code was detected and the session is not
\* authenticated at the return; 'Unable to load WhatsApp Web' only from the
\* failed re-check after no QR code; and whenever it returns success the
\* session's is_authenticated is true.
C12_InitProtocol ==
  [][\A t \in Threads :
       LET b == loc[t].bot
           qr == loc[t].qr_code_present
           r == loc'[t].res
       IN /\ (pc'[t] \in InitPcs /\ pc'[t] # pc[t]) =>
               \/ pc[t] \notin InitPcs /\ pc'[t] = "is_setup"
               \/ <<pc[t], pc'[t]>> \in InitOrder
          /\ InitReturns(t) =>
               /\ r.success => botAuth'[b]
               /\ (r.success /\ ~r.qr_required) =>
                    \/ pc[t] = "is_check1" /\ qr = "unset"
                    \/ pc[t] = "is_recheck" /\ qr = "no"
               /\ (r.success /\ r.qr_required) => (pc[t] = "is_waitauth" /\ qr = "yes")
               /\ (r.error = "Authentication timeout") <=> (qr = "yes" /\ ~botAuth'[b])
               /\ (r.error = "Unable to load WhatsApp Web") =>
                    (pc[t] = "is_recheck" /\ qr = "no" /\ ~botAuth'[b])]_vars

\* initialize_session has returned success with qr_required after the QR
\* code was captured.
C12_Witness ==
  \E t \in Threads :
    /\ pc[t] = "ri_ret"
    /\ loc[t].res = Ok(TRUE)
    /\ botAuth[loc[t].bot]
    /\ qr_code_path(loc[t].bot) \in qrFiles

\* --------------------------------------------------------------------- C13
\* Worker t holds the result of an initialize_session that ended with
\* 'Authentication timeout'.
TimedOut(t) ==
  /\ pc[t] \in {"ri_ret", "sm_init1", "sm_init2", "send_ret", "done"}
  /\ loc[t].res = Fail("Authentication timeout")

\* C13: from the return of an initialize_session that failed with
\* 'Authentication timeout' to the end of the request, the session is
\* registered under the request's device id, its driver handle is a running
\* browser and is_authenticated is false; the end of the request changes
\* none of this, so the next get_or_create_bot for the device id finds that
\* session.
C13_TimeoutLeavesSession ==
  /\ [](\A t \in Threads :
          TimedOut(t) =>
            /\ bot_instances[loc[t].dev] = loc[t].bot
            /\ Usable(loc[t].bot)
            /\ ~botAuth[loc[t].bot])
  /\ [][\A t \in Threads :
          (TimedOut(t) /\ pc'[t] = "idle") =>
            /\ UNCHANGED <<bot_instances, botVars, drvVars>>
            /\ \A d \in Devices : d = loc[t].dev => GocHit(FALSE, d)']_vars

\* A request has ended after an 'Authentication timeout' and the session
\* waits, registered and unauthenticated, with its browser running.
C13_Witness ==
  \E t \in Threads :
    /\ pc[t] = "done"
    /\ loc[t].route = "initialize"
    /\ loc[t].res = Fail("Authentication timeout")
    /\ Registered(loc[t].dev)
    /\ Usable(bot_instances[loc[t].dev])

\* --------------------------------------------------------------------- C14
\* C14: when the Chrome or the chromedriver executable is not found,
\* _setup_driver launches nothing and leaves the driver handle as it was
\* (absent if it was absent), initialize_session returns its failure without
\* going on to load the page, and POST /initialize answers that failure
\* with status 500 and success false.
C14_MissingExecutable ==
  /\ [][\A t \in Threads :
          IsSetupWith(t, "missing") =>
            /\ UNCHANGED <<botDriver, drvDev, leaked>>
            /\ InitReturns(t)
            /\ loc'[t].res = Fail("Failed to setup WebDriver")]_vars
  /\ [](\A t \in Threads :
          (/\ pc[t] = "done"
           /\ loc[t].route = "initialize"
           /\ loc[t].res = Fail("Failed to setup WebDriver"))
            => (loc[t].status = 500 /\ ~loc[t].success))

\* POST /initialize has answered 500 for a session that has no driver handle
\* while no browser runs for its device id.
C14_Witness ==
  \E t \in Threads :
    /\ pc[t] = "done"
    /\ loc[t].route = "initialize"
    /\ loc[t].res = Fail("Failed to setup WebDriver")
    /\ loc[t].status = 500
    /\ botDriver[loc[t].bot] = None
    /\ Running(loc[t].dev) = 0

\* --------------------------------------------------------------------- C15
\* C15: a send_message on a session with no driver handle calls
\* initialize_session first; when an initialize_session called by
\* send_message has failed, send_message returns that very result, having
\* made no call on the chat; send_message is at the chat navigation, or past
\* it, only while the session has a driver handle and is_authenticated is
\* true; and the first call it makes on the chat is the navigation.
C15_SendInitializesFirst ==
  /\ [][\A t \in Threads :
          pc'[t] # pc[t] =>
            /\ (pc[t] = "sm_driver" /\ botDriver[loc[t].bot] = None) =>
                 pc'[t] = "is_setup"
            /\ (pc[t] \in {"sm_init1", "sm_init2"} /\ ~loc[t].res.success) =>
                 /\ pc'[t] = "send_ret"
                 /\ loc'[t].res = loc[t].res
                 /\ loc'[t].did = <<>>]_vars
  /\ [](\A t \in Threads :
          /\ pc[t] \in {"sm_nav", "sm_chat", "sm_media", "sm_text"} =>
               (botDriver[loc[t].bot] # None /\ botAuth[loc[t].bot])
          /\ loc[t].did # <<>> => Head(loc[t].did) \in {"nav", "nav_raised"})

\* A send on a session with no driver handle has returned the failure of
\* its initialize_session, with no call made on the chat.
C15_Witness ==
  \E t \in Threads :
    /\ pc[t] = "send_ret"
    /\ loc[t].route = "send"
    /\ loc[t].res = Fail("Failed to setup WebDriver")
    /\ loc[t].did = <<>>
    /\ botDriver[loc[t].bot] = None

\* --------------------------------------------------------------------- C16
\* Worker t's send_message made a call that ended as e.
Made(t, e) == \E i \in 1..Len(loc[t].did) : loc[t].did[i] = e

\* Worker t's send_message, past its initialization, has returned.
SendReturned(t) ==
  /\ pc[t] \in {"send_ret", "done"}
  /\ loc[t].route \in {"send", "call"}
  /\ loc[t].did # <<>>

\* C16: a send_message that got past its initialization returns success
\* exactly when the chat became ready and the text send succeeded or no text
\* was asked for, whatever the media send did.  With no media path, or one
\* that names no file, no media send is made; with a file and a ready chat
\* the media send is made, before the text, and when it fails the text is
\* still attempted; when the chat did not become ready neither media nor
\* text is attempted.
C16_SendResult ==
  \A t \in Threads :
    SendReturned(t) =>
      LET did == loc[t].did
          media == Made(t, "media_sent") \/ Made(t, "media_failed")
          text == Made(t, "text_sent") \/ Made(t, "text_failed")
      IN /\ loc[t].res.success <=>
              (Made(t, "chat_ready") /\ (loc[t].message => Made(t, "text_sent")))
         /\ media <=> (Made(t, "chat_ready") /\ loc[t].media = "present")
         /\ text <=> (Made(t, "chat_ready") /\ loc[t].message)
         /\ \A i, j \in 1..Len(did) :
              (did[i] \in {"media_sent", "media_failed"}
                 /\ did[j] \in {"text_sent", "text_failed"}) => i < j

\* A send_message whose media send failed has sent its text and returned
\* success.
C16_Witness ==
  \E t \in Threads :
    /\ pc[t] = "done"
    /\ loc[t].route = "call"
    /\ loc[t].did = <<"nav", "chat_ready", "media_failed", "text_sent">>
    /\ loc[t].res.success

\* --------------------------------------------------------------------- C17
\* C17: GET /qr/<device_id>, once it has the session, answers 200 with the
\* image whenever a QR code captured for that device id exists, and 404
\* 'QR code not available' whenever none exists; it answers 500 in neither
\* case.
C17_QrAnswer ==
  \A t \in Threads :
    (pc[t] = "done" /\ loc[t].route = "qr" /\ loc[t].bot # None) =>
      IF \E x \in QrNames : qrFrom[x] = loc[t].dev
        THEN loc[t].status = 200
        ELSE loc[t].status = 404 /\ loc[t].body = "QR code not available"

\* --------------------------------------------------------------------- C18
\* C18: the directory a session's browser is launched with lies under
\* the profile directory of the device id it was launched for, so the
\* browsers of sessions of two device ids never run on the same directory.
C18_ProfilePerDevice ==
  \A b \in BotIds :
    botDriver[b] # None =>
      LET d == drvDev[botDriver[b]]
      IN /\ SubSeq(user_data_dir(b), 1, Len(profile_dir(d))) = profile_dir(d)
         /\ \A c \in BotIds :
              (botDriver[c] # None /\ drvDev[botDriver[c]] # d) =>
                user_data_dir(c) # user_data_dir(b)

\* --------------------------------------------------------------------- C19
\* C19: the session registered under device id D keeps its QR image at
\* qr_codes/D_qr.png; the image GET /qr/D finds was captured by the session
\* of D; and a step that deletes a QR image is a step of a request for the
\* device id whose session captured it.
C19_ArtifactPerDevice ==
  /\ [](\A d \in Devices : Registered(d) => qr_code_path(bot_instances[d]) = d)
  /\ [](\A t \in Threads :
          (pc[t] = "qr_path" /\ get_qr_code_path(loc[t].bot) # "none") =>
            qrFrom[get_qr_code_path(loc[t].bot)] = loc[t].dev)
  /\ [][\A x \in QrNames :
          (qrFrom[x] # "none" /\ qrFrom'[x] = "none") =>
            \E t \in Threads : pc'[t] # pc[t] /\ loc[t].dev = qrFrom[x]]_vars

\* --------------------------------------------------------------------- C20
\* The digits of s, in their order.
RECURSIVE DigitsOf(_)
DigitsOf(s) ==
  IF s = <<>> THEN <<>>
  ELSE IF Head(s) \in {"0", "1", "2", "3", "4", "5", "6", "7", "8", "9"}
         THEN <<Head(s)>> \o DigitsOf(Tail(s))
         ELSE DigitsOf(Tail(s))

\* C20: the normalized number is the digits of the given one, with 91 put
\* before them exactly when there are 10 of them and they do not begin with
\* 91; any other digit string, a 12-digit one that begins with 91 included,
\* comes out as it is.  9876543210 and +91 98765 43210 both give
\* 919876543210.
C20_PhoneNormalization ==
  \A t \in Threads :
    pc[t] = "done" =>
      LET given == loc[t].phone_number
          digits == DigitsOf(given)
          prefixed == Len(digits) >= 2 /\ digits[1] = "9" /\ digits[2] = "1"
      IN /\ (Len(digits) = 10 /\ ~prefixed) => loc[t].clean_phone = <<"9", "1">> \o digits
         /\ ~(Len(digits) = 10 /\ ~prefixed) => loc[t].clean_phone = digits
         /\ given \in {Example1, Example2} =>
              loc[t].clean_phone =
                <<"9", "1", "9", "8", "7", "6", "5", "4", "3", "2", "1", "0">>

\* +91 98765 43210 has been normalized to 919876543210.
C20_Witness ==
  \E t \in Threads :
    /\ pc[t] = "done"
    /\ loc[t].phone_number = Example2
    /\ loc[t].clean_phone = <<"9", "1", "9", "8", "7", "6", "5", "4", "3", "2", "1", "0">>

\* --------------------------------------------------------------------- C21
\* C21: a POST /send whose body lacks phone or message, or has one of them
\* empty, is answered 400 in its first step, which leaves the registry, every
\* session, every browser and every QR image as they were; the request holds
\* no session, and its end changes nothing either.
C21_BadSendTouchesNothing ==
  /\ [][\A t \in Threads :
          /\ \A d \in Devices :
               StartSend(t, d, FALSE) =>
                 /\ pc'[t] = "done"
                 /\ loc'[t].status = 400 /\ ~loc'[t].success
                 /\ loc'[t].bot = None
                 /\ UNCHANGED <<bot_instances, botVars, drvVars>>
          /\ (pc[t] = "done" /\ loc[t].status = 400 /\ pc'[t] # "done") =>
               UNCHANGED <<bot_instances, botVars, drvVars>>]_vars
  /\ [](\A t \in Threads :
          (loc[t].route = "send" /\ loc[t].status = 400) =>
            (pc[t] = "done" /\ loc[t].bot = None))

\* A POST /send without its fields has been answered 400 while the device
\* id has a registered session with a running browser.
C21_Witness ==
  \E t \in Threads :
    /\ pc[t] = "done"
    /\ loc[t].route = "send"
    /\ loc[t].status = 400
    /\ Registered(loc[t].dev)
    /\ Usable(bot_instances[loc[t].dev])

\* --------------------------------------------------------------------- C22
\* The number of entries of the registry.
NumSessions == Cardinality({d \in Devices : Registered(d)})

\* C22: with an API key configured, a request to a decorated route that
\* carries no X-API-KEY header, an empty one or one that differs from the
\* key is answered 401 in its first step, holding no session, and neither
\* that step nor the end of the request changes the registry, a session, a
\* browser or a QR image.  GET /healthz, whatever header it carries, is
\* answered 200 with status ok and active_sessions the number of registry
\* entries, and changes nothing.
C22_ApiKey ==
  [][\A t \in Threads :
       /\ \A r \in KeyedRoutes, d \in Devices, valid \in {TRUE, FALSE},
             k \in ProvidedKeys \ {API_KEY} :
            Request(t, r, d, valid, k) =>
              /\ pc'[t] = "done"
              /\ loc'[t].status = 401 /\ ~loc'[t].success
              /\ loc'[t].bot = None
              /\ UNCHANGED <<bot_instances, botVars, drvVars>>
       /\ (pc[t] = "done" /\ loc[t].status = 401 /\ pc'[t] # "done") =>
            UNCHANGED <<bot_instances, botVars, drvVars>>
       /\ \A k \in ProvidedKeys :
            health_check(t, k) =>
              /\ pc'[t] = "done"
              /\ loc'[t].status = 200 /\ loc'[t].body = "ok"
              /\ loc'[t].active_sessions = NumSessions
              /\ UNCHANGED <<bot_instances, botVars, drvVars>>
       /\ (pc[t] = "done" /\ loc[t].route = "healthz" /\ pc'[t] # "done") =>
            UNCHANGED <<bot_instances, botVars, drvVars>>]_vars

\* A DELETE /sessions request has been answered 401 while the device id's
\* session is registered with a running browser.
C22_Witness ==
  \E t \in Threads :
    /\ pc[t] = "done"
    /\ loc[t].route = "delete"
    /\ loc[t].status = 401
    /\ Registered(loc[t].dev)
    /\ Usable(bot_instances[loc[t].dev])

\* --------------------------------------------------------------------- C23
\* C23: every running browser is the driver of a session that is in the
\* registry: none runs on after its session was removed by delete or
\* eviction or replaced by a forced construction, and none runs without a
\* session that refers to it.
C23_LiveDriverRegistered ==
  /\ \A k \in LiveDrivers : \E b \in RegisteredBots : botDriver[b] = k
  /\ \A d \in Devices : leaked[d] = 0

\* --------------------------------------------------------------------- C24
\* Worker t is inside initialize_session.
InInit(t) == pc[t] \in InitPcs \cup {"wa_loop", "wa_check", "wa_sleep"}

\* C24: every call of initialize_session returns, with success or with a
\* failure that names its error; the polling of _wait_for_authentication
\* checks again only while the deadline has not passed and no check has
\* answered yes.
C24_InitTerminates ==
  /\ \A t \in Threads :
       InInit(t) ~> (/\ ~InInit(t)
                     /\ (loc[t].res.success \/ loc[t].res.error \notin {"none", ""}))
  /\ [][\A t \in Threads :
          (pc[t] = "wa_loop" /\ pc'[t] = "wa_check") =>
            (now < loc[t].end_time /\ ~botAuth[loc[t].bot])]_vars

\* The polling has gone on to its deadline and initialize_session has
\* returned 'Authentication timeout'.
C24_Witness ==
  \E t \in Threads :
    /\ pc[t] = "ri_ret"
    /\ loc[t].res = Fail("Authentication timeout")
    /\ now >= AuthTimeout

\* --------------------------------------------------------------------- C25
\* C25: when the get_or_create_bot of a GET /qr request for a device id
\* that is not registered returns, the registry holds one session more, the
\* one of that device id, the new session has no driver and no driver was
\* launched; /healthz reports the number of registered sessions.
C25_QrRegistersSession ==
  /\ [][\A t \in Threads : \A d \in Devices :
          (/\ pc[t] = "goc_new" /\ loc[t].route = "qr" /\ loc[t].dev = d
           /\ ~Registered(d)
           /\ pc'[t] = "qr_path") =>
            (/\ NumSessions' = NumSessions + 1
             /\ Registered(d)'
             /\ botDriver'[bot_instances'[d]] = None
             /\ drvDev' = drvDev)]_vars
  /\ [][\A t \in Threads : \A k \in ProvidedKeys :
          health_check(t, k) => loc'[t].active_sessions = NumSessions]_vars

\* The get_or_create_bot of a GET /qr request has just stored a new session:
\* both device ids are registered now, the new session has no driver and no
\* browser runs.
C25_Witness ==
  \E t \in Threads :
    /\ pc[t] = "qr_path" /\ loc[t].route = "qr"
    /\ bot_instances[loc[t].dev] = loc[t].bot
    /\ botLast[loc[t].bot] = now
    /\ botDriver[loc[t].bot] = None
    /\ NumSessions = Cardinality(Devices)
    /\ LiveDrivers = {}
    /\ \A d \in Devices : leaked[d] = 0

====
